---- MODULE Spec2Model ----
(***************************************************************************)
(* The crawl-and-persist pipeline of webscrape.py: run() walks letter      *)
(* index pages, player pages and interview pages, appends one CSV row per  *)
(* interview and resumes from the identifiers already in the CSV.          *)
(*                                                                         *)
(* Text (identifiers, labels, dates) is a sequence of tokens: single        *)
(* characters, or whole words and phrases where only containment of a      *)
(* keyword or marker is looked at.  str.strip() is computed on it rather   *)
(* than assumed.  A URL is a record of its script name and its decoded     *)
(* query pairs, in order.                                                  *)
(***************************************************************************)
EXTENDS Integers, Sequences, FiniteSets, TLC

\* ----------------------------------------------------------------- bounds
\* Letters of the alphabet that are modelled (the source has 26).
NumLetters == 3
\* Invocations of run() in one behaviour.
MaxRuns == 2

\* ------------------------------------------------------------------- text
Alphabet == << "a", "b", "c", "d", "e", "f", "g", "h", "i", "j", "k", "l", "m",
               "n", "o", "p", "q", "r", "s", "t", "u", "v", "w", "x", "y", "z" >>

\* Python's None where a str is expected; `not x` is true of both None and "".
None == << >>

IsSpace(c) == c \in {" ", "\n"}

RECURSIVE LStrip(_)
LStrip(s) == IF s # << >> /\ IsSpace(Head(s)) THEN LStrip(Tail(s)) ELSE s

RECURSIVE RStrip(_)
RStrip(s) ==
    IF s # << >> /\ IsSpace(s[Len(s)]) THEN RStrip(SubSeq(s, 1, Len(s) - 1)) ELSE s

\* str.strip()
Strip(s) == RStrip(LStrip(s))

IsPrefix(s, t) == Len(s) <= Len(t) /\ SubSeq(t, 1, Len(s)) = s

Range(s) == { s[i] : i \in 1..Len(s) }

\* -------------------------------------------------------------------- URLs
Url(page, query) == [page |-> page, query |-> query]

HasKey(url, k) == \E i \in 1..Len(url.query) : url.query[i][1] = k

\* "show_player.php?id=" in href and "letter=" not in href
IsPlayerHref(url) ==
    /\ url.page = "show_player"
    /\ url.query # << >>
    /\ url.query[1][1] = "id"
    /\ ~HasKey(url, "letter")

\* "show_interview.php?id=" in href
IsInterviewHref(url) ==
    /\ url.page = "show_interview"
    /\ url.query # << >>
    /\ url.query[1][1] = "id"

\* parse_qs drops blank values; the first remaining value of "id", or None.
parse_interview_id(url) ==
    LET ids == SelectSeq(url.query, LAMBDA kv : kv[1] = "id" /\ kv[2] # << >>)
    IN  IF ids = << >> THEN None ELSE ids[1][2]

get_letter_urls ==
    [ i \in 1..NumLetters |->
        Url("show_player", << <<"category", <<"2">> >>, <<"letter", <<Alphabet[i]>> >> >>) ]

\* ------------------------------------------------------------------- pages
\* An element that carries text, in document order: its tag, its text, the
\* <td> it lies in (0: none), whether it lies inside a <script>, <style> or
\* <nav> element, and whether it lies inside the element find(id=...) or
\* find("main") of _fallback_transcript_text returns.
Node(tag, text, td, cut, main) ==
    [tag |-> tag, text |-> text, td |-> td, cut |-> cut, main |-> main]

\* A parsed page: its anchors and its text-carrying elements, in document order.
Soup(anchors, nodes) == [ok |-> TRUE, anchors |-> anchors, nodes |-> nodes]

\* get_soup's None.
NoSoup == [ok |-> FALSE, anchors |-> << >>, nodes |-> << >>]

\* soup.find_all(tag)
FindAll(soup, tag) == SelectSeq(soup.nodes, LAMBDA n : n.tag = tag)

H(tag, text) == Node(tag, text, 0, FALSE, FALSE)

\* An anchor: its target, its text, and the text of the <nobr> of its table row.
Anchor(url, text, nobr) == [url |-> url, text |-> text, nobr |-> nobr]

\* re.sub(r"^\[|\]$", "", s)
StripBrackets(s) ==
    LET a == IF s # << >> /\ Head(s) = "[" THEN Tail(s) ELSE s
    IN  IF a # << >> /\ a[Len(a)] = "]" THEN SubSeq(a, 1, Len(a) - 1) ELSE a

RECURSIVE PlayerLinksFrom(_, _, _)
PlayerLinksFrom(anchors, seen, out) ==
    IF anchors = << >> THEN out
    ELSE LET a    == Head(anchors)
             name == Strip(a.text)
         IN  IF IsPlayerHref(a.url) /\ name # << >> /\ a.url \notin seen
             THEN PlayerLinksFrom(Tail(anchors), seen \cup {a.url},
                                  Append(out, [url |-> a.url, name |-> name]))
             ELSE PlayerLinksFrom(Tail(anchors), seen, out)

get_player_links(soup) ==
    IF ~soup.ok THEN << >> ELSE PlayerLinksFrom(soup.anchors, {}, << >>)

RECURSIVE InterviewLinksFrom(_, _)
InterviewLinksFrom(anchors, out) ==
    IF anchors = << >> THEN out
    ELSE LET a     == Head(anchors)
             title == Strip(a.text)
         IN  IF IsInterviewHref(a.url) /\ title # << >>
             THEN InterviewLinksFrom(Tail(anchors),
                    Append(out, [url |-> a.url, title |-> title,
                                 date |-> StripBrackets(Strip(a.nobr))]))
             ELSE InterviewLinksFrom(Tail(anchors), out)

get_interview_links(soup) ==
    IF ~soup.ok THEN << >> ELSE InterviewLinksFrom(soup.anchors, << >>)

\* ---------------------------------------------------------------- the site
\* The documents the server holds.  Player 1 lists interview 7 twice and
\* interview "8 " (an id whose query value ends in an encoded space); player 2
\* lists "8 " again, a link with a blank id, and a second URL of interview 7.
PlayerUrl(n) == Url("show_player", << <<"id", <<n>> >> >>)
DocUrl(id)   == Url("show_interview", << <<"id", id>> >>)
DocUrlAlt(id) == Url("show_interview", << <<"id", id>>, <<"x", <<"1">> >> >>)

Id7 == << "7" >>
Id8 == << "8", " " >>

\* Every interview page: title, date and interviewee headings and one
\* paragraph, in the <td> of the title.
DocDate == << "October 4, 2023" >>
DocName == << "Jane", "Doe" >>
InterviewNodes ==
    << Node("h1", <<"E">>, 1, FALSE, FALSE), Node("h2", DocDate, 1, FALSE, FALSE),
       Node("h3", DocName, 1, FALSE, FALSE), Node("p", <<"i">>, 1, FALSE, FALSE) >>

SitePage(url) ==
    CASE url = get_letter_urls[1] ->
           Soup(<< Anchor(PlayerUrl("1"), <<"A">>, << >>),
                   Anchor(get_letter_urls[2], <<"b">>, << >>),
                   Anchor(PlayerUrl("1"), <<"Z">>, << >>) >>, << >>)
      [] NumLetters >= 2 /\ url = get_letter_urls[2] ->
           Soup(<< Anchor(PlayerUrl("2"), <<" ", "B">>, << >>) >>, << >>)
      [] url = PlayerUrl("1") ->
           Soup(<< Anchor(DocUrl(Id7), <<"t">>, <<"[", "d", "]">>),
                   Anchor(DocUrl(Id8), <<"u">>, << >>),
                   Anchor(DocUrl(Id7), <<"v">>, << >>) >>,
                << H("h1", <<"A", "1">>) >>)
      [] url = PlayerUrl("2") ->
           Soup(<< Anchor(DocUrl(Id8), <<"u">>, << >>),
                   Anchor(DocUrl(<< >>), <<"w">>, << >>),
                   Anchor(DocUrlAlt(Id7), <<"t">>, << >>) >>, << >>)
      [] url.page = "show_interview" -> Soup(<< >>, InterviewNodes)
      [] OTHER -> Soup(<< >>, << >>)

\* ----------------------------------------------------------------- the CSV
\* A record of the file as csv.reader splits it.  kind "header" is the
\* CSV_COLUMNS row, "row" a row written by append_row, "short" a line with fewer
\* cells than columns, "bad" a record on which the reader raises csv.Error or
\* the decoder raises UnicodeDecodeError.
HeaderRow ==
    [kind |-> "header", player_name |-> <<"player_name">>, date |-> <<"date">>,
     interview_id |-> <<"interview_id">>, url |-> <<"url">>]
ShortRow ==
    [kind |-> "short", player_name |-> <<"x">>, date |-> None,
     interview_id |-> None, url |-> None]
BadRow ==
    [kind |-> "bad", player_name |-> None, date |-> None,
     interview_id |-> None, url |-> None]
DataRow(player_name, date, interview_id, url) ==
    [kind |-> "row", player_name |-> player_name, date |-> date,
     interview_id |-> interview_id, url |-> url]

\* reader.fieldnames and "interview_id" in reader.fieldnames
HasIdColumn(first) == first.kind = "header"

\* As ScanIds, with `ids = set()` in the except clause.
RECURSIVE ScanIds_ClearOnError(_, _)
ScanIds_ClearOnError(rows, ids) ==
    IF rows = << >> THEN ids
    ELSE IF Head(rows).kind = "bad" THEN {}
    ELSE IF Head(rows).interview_id # None
         THEN ScanIds_ClearOnError(Tail(rows),
                                   ids \cup {Strip(Head(rows).interview_id)})
         ELSE ScanIds_ClearOnError(Tail(rows), ids)

\* The loop of load_scraped_ids over the rows after the field names: a raising
\* record ends the scan and the ids added so far are kept.
RECURSIVE ScanIds(_, _)
ScanIds(rows, ids) ==
    IF rows = << >> THEN ids
    ELSE IF Head(rows).kind = "bad" THEN ids
    ELSE IF Head(rows).interview_id # None
         THEN ScanIds(Tail(rows), ids \cup {Strip(Head(rows).interview_id)})
         ELSE ScanIds(Tail(rows), ids)

load_scraped_ids(exists, rows) ==
    IF ~exists THEN {}
    ELSE IF rows = << >> THEN {}
    ELSE IF Head(rows).kind = "bad" THEN {}
    ELSE IF HasIdColumn(Head(rows)) THEN ScanIds(Tail(rows), {})
    ELSE {}

\* As ensure_csv_header, without the early return: the file is always rewritten.
ensure_csv_header_Unguarded(exists, rows) == << HeaderRow >>

\* As ensure_csv_header, without the early return and opening in mode "a".
ensure_csv_header_AppendMode(exists, rows) == Append(rows, HeaderRow)

\* ensure_csv_header: the rows of the file afterwards.
ensure_csv_header(exists, rows) ==
    IF exists /\ rows # << >> THEN rows ELSE << HeaderRow >>

append_row(rows, row) == Append(rows, row)

\* ------------------------------------------------------------- extraction
\* str.lower() on the capitalised words the pages use.
Lower(tok) ==
    CASE tok = "Park" -> "park"     [] tok = "Field" -> "field"
      [] tok = "Center" -> "center" [] tok = "Press" -> "press"
      [] tok = "Conference" -> "conference" [] tok = "Sox" -> "sox"
      [] tok = "Arena" -> "arena"   [] tok = "Fenway" -> "fenway"
      [] tok = "Wrigley" -> "wrigley" [] tok = "Red" -> "red"
      [] tok = "Boston" -> "boston" [] tok = "Jane" -> "jane"
      [] tok = "Doe" -> "doe"       [] OTHER -> tok

VenueKw == {"field", "stadium", "park", "center"}
SessionKw == {"press", "conference", "session"}
TeamKw ==
    {"twins", "yankees", "sox", "mets", "dodgers", "braves", "guardians",
     "angels", "mariners", "athletics", "rangers", "royals", "tigers",
     "rays", "orioles", "blue jays", "nationals", "phillies", "marlins",
     "cardinals", "cubs", "brewers", "pirates", "reds", "astros",
     "giants", "padres", "diamondbacks", "rockies", "indians"}

\* any(x in t.lower() for x in kws)
HasKw(t, kws) == \E k \in 1..Len(t) : Lower(t[k]) \in kws

\* The texts that match ^[A-Z][a-z]+\s+\d{1,2},?\s+\d{4}$ are one token.
DateTokens == {"October 4, 2023", "May 1, 2020"}

\* re.match(r"^[A-Z][a-z]+\s+\d{1,2},?\s+\d{4}$", t)
IsDate(t) == Len(t) = 1 /\ t[1] \in DateTokens

EmptyData ==
    [player_name |-> << >>, interview_title |-> << >>, date |-> << >>,
     event |-> << >>, venue |-> << >>, team |-> << >>, session_type |-> << >>,
     transcript |-> << >>]

\* As ClassifyH3, with the session keywords tested before the venue keywords.
ClassifyH3_SessionFirst(data, t, i) ==
    IF t = << >> THEN data
    ELSE IF IsDate(t) THEN [data EXCEPT !.date = IF @ # << >> THEN @ ELSE t]
    ELSE IF data.player_name = << >> THEN [data EXCEPT !.player_name = t]
    ELSE IF HasKw(t, SessionKw) THEN [data EXCEPT !.session_type = t]
    ELSE IF HasKw(t, VenueKw) THEN [data EXCEPT !.venue = t]
    ELSE IF data.team = << >> /\ HasKw(t, TeamKw) THEN [data EXCEPT !.team = t]
    ELSE IF /\ data.venue = << >> /\ "," \in Range(t) /\ i >= 3
            /\ HasKw(t, VenueKw \cup {"arena"})
         THEN [data EXCEPT !.venue = t]
    ELSE data

\* Lines 152-173: the body of the loop over the h3 texts, for the text t at
\* index i (from 0).
ClassifyH3(data, t, i) ==
    IF t = << >> THEN data
    ELSE IF IsDate(t) THEN [data EXCEPT !.date = IF @ # << >> THEN @ ELSE t]
    ELSE IF data.player_name = << >> THEN [data EXCEPT !.player_name = t]
    ELSE IF HasKw(t, VenueKw) THEN [data EXCEPT !.venue = t]
    ELSE IF HasKw(t, SessionKw) THEN [data EXCEPT !.session_type = t]
    ELSE IF data.team = << >> /\ HasKw(t, TeamKw) THEN [data EXCEPT !.team = t]
    ELSE IF /\ data.venue = << >> /\ "," \in Range(t) /\ i >= 3
            /\ HasKw(t, VenueKw \cup {"arena"})
         THEN [data EXCEPT !.venue = t]
    ELSE data

\* Line 151: for i, t in enumerate(texts), from the k-th text on.
RECURSIVE ScanH3(_, _, _)
ScanH3(texts, k, data) ==
    IF k > Len(texts) THEN data
    ELSE ScanH3(texts, k + 1, ClassifyH3(data, texts[k], k - 1))

\* The tokens of which `marker` is a substring.
TokensWith(marker) ==
    IF marker = "ASAP Sports, Inc" THEN {"ASAP Sports, Inc", "ASAP Sports, Inc."}
    ELSE {marker}

\* marker in text
Contains(text, marker) == \E k \in 1..Len(text) : text[k] \in TokensWith(marker)

\* text.split(marker)[0]
SplitBefore(text, marker) ==
    IF ~Contains(text, marker) THEN text
    ELSE LET k == CHOOSE i \in 1..Len(text) :
                    /\ text[i] \in TokensWith(marker)
                    /\ \A j \in 1..(i - 1) : text[j] \notin TokensWith(marker)
         IN  SubSeq(text, 1, k - 1)

\* for marker in markers: if marker in text: text = text.split(marker)[0]
RECURSIVE CutAt(_, _)
CutAt(text, markers) ==
    IF markers = << >> THEN text
    ELSE CutAt(SplitBefore(text, Head(markers)), Tail(markers))

\* sep.join(parts)
RECURSIVE Join(_, _)
Join(parts, sep) ==
    IF parts = << >> THEN << >>
    ELSE IF Len(parts) = 1 THEN parts[1]
    ELSE parts[1] \o << sep >> \o Join(Tail(parts), sep)

\* get_text(separator="\n", strip=True) of the elements `nodes`
GetText(nodes) ==
    LET texts == [k \in 1..Len(nodes) |-> Strip(nodes[k].text)]
    IN  Join(SelectSeq(texts, LAMBDA t : t # << >>), "\n")

\* As CollectParas, with `continue` for `break` at a marker paragraph.
RECURSIVE CollectParas_SkipMarker(_, _)
CollectParas_SkipMarker(ps, parts) ==
    IF ps = << >> THEN parts
    ELSE LET text == Strip(Head(ps).text)
         IN  IF Contains(text, "FastScripts Transcript")
                  \/ Contains(text, "ASAP Sports, Inc")
             THEN CollectParas_SkipMarker(Tail(ps), parts)
             ELSE CollectParas_SkipMarker(Tail(ps),
                    IF text # << >> THEN Append(parts, text) ELSE parts)

\* Lines 179-184: the paragraphs of the main <td> up to the first marker.
RECURSIVE CollectParas(_, _)
CollectParas(ps, parts) ==
    IF ps = << >> THEN parts
    ELSE LET text == Strip(Head(ps).text)
         IN  IF Contains(text, "FastScripts Transcript")
                  \/ Contains(text, "ASAP Sports, Inc")
             THEN parts
             ELSE CollectParas(Tail(ps),
                    IF text # << >> THEN Append(parts, text) ELSE parts)

\* Line 176: the <td> of the first h1 (0: no h1, or an h1 outside any <td>).
MainTd(soup) ==
    IF FindAll(soup, "h1") = << >> THEN 0 ELSE FindAll(soup, "h1")[1].td

\* Lines 177-190: transcript_parts before the join.
TranscriptParts(soup) ==
    LET td    == MainTd(soup)
        inTd  == SelectSeq(soup.nodes, LAMBDA n : n.td = td)
        paras == CollectParas(SelectSeq(inTd, LAMBDA n : n.tag = "p"), << >>)
        text  == Strip(CutAt(GetText(inTd),
                             << "FastScripts Transcript", "ASAP Sports, Inc." >>))
    IN  IF td = 0 THEN << >>
        ELSE IF paras # << >> THEN paras
        ELSE IF text # << >> THEN << text >>
        ELSE << >>

\* The tree after tag.decompose() of every script, style and nav element.
Decomposed(soup) == [soup EXCEPT !.nodes = SelectSeq(@, LAMBDA n : ~n.cut)]

\* _fallback_transcript_text: the text it returns.
fallback_transcript_text(soup) ==
    LET kept   == Decomposed(soup).nodes
        inMain == SelectSeq(kept, LAMBDA n : n.main)
        body   == IF inMain # << >> THEN inMain ELSE kept
    IN  Strip(CutAt(GetText(body),
                    << "FastScripts Transcript", "ASAP Sports, Inc.",
                       "Subscribe to RSS" >>))

\* extract_transcript_metadata_and_text: the dict it returns.
extract_transcript_metadata_and_text(soup) ==
    IF ~soup.ok THEN EmptyData
    ELSE
    LET h1s   == FindAll(soup, "h1")
        h2s   == FindAll(soup, "h2")
        h3s   == FindAll(soup, "h3")
        d1    == IF h1s = << >> THEN EmptyData
                 ELSE [EmptyData EXCEPT !.event = Strip(h1s[1].text),
                                        !.interview_title = Strip(h1s[1].text)]
        d2    == IF h2s # << >> /\ IsDate(Strip(h2s[1].text))
                 THEN [d1 EXCEPT !.date = Strip(h2s[1].text)] ELSE d1
        texts == [k \in 1..Len(h3s) |-> Strip(h3s[k].text)]
        d3    == ScanH3(texts, 1, d2)
        parts == TranscriptParts(soup)
    IN  [d3 EXCEPT !.transcript = IF parts # << >> THEN Join(parts, "\n\n")
                                  ELSE fallback_transcript_text(soup)]

\* extract_transcript_metadata_and_text: the tree it leaves, which line 197
\* has changed when line 191 called _fallback_transcript_text.
SoupAfterExtract(soup) ==
    IF soup.ok /\ TranscriptParts(soup) = << >> THEN Decomposed(soup) ELSE soup

\* As scrape_interview, without `if not soup: return None`.
scrape_interview_NoNoneCheck(soup, url, interview_id, name, date_from_player_page) ==
    << DataRow(name,
               IF date_from_player_page # << >> THEN date_from_player_page
               ELSE extract_transcript_metadata_and_text(soup).date,
               interview_id, url) >>

\* As scrape_interview, with line 226 as row["date"] or date_from_player_page.
scrape_interview_DocDateFirst(soup, url, interview_id, name, date_from_player_page) ==
    IF ~soup.ok THEN << >>
    ELSE << DataRow(name,
                    IF extract_transcript_metadata_and_text(soup).date # << >>
                    THEN extract_transcript_metadata_and_text(soup).date
                    ELSE date_from_player_page,
                    interview_id, url) >>

\* scrape_interview after its fetch and delay: None, or the row.
scrape_interview(soup, url, interview_id, name, date_from_player_page) ==
    IF ~soup.ok THEN << >>
    ELSE << DataRow(name,
                    IF date_from_player_page # << >> THEN date_from_player_page
                    ELSE extract_transcript_metadata_and_text(soup).date,
                    interview_id, url) >>

\* ------------------------------------------------------------------- state
VARIABLES
    csv_exists,     \* csv_path.exists()
    csv_rows,       \* the records of the file at csv_path
    pc,             \* where run() is
    resume,         \* run()'s argument
    letter_urls,    \* run()'s local, after the max_letters cut
    scraped_ids,
    total_new,
    li, players, pi, player_name, interviews, ii,
    soup,           \* the result of the get_soup not yet consumed
    row,            \* run()'s row, from scrape_interview until it is stored
    printed,        \* the count the last finished run printed
    unslept,        \* network calls not yet followed by a delay
    idle_sleeps,    \* delays that followed no network call (capped)
    count,          \* get_soup calls of the current run, and the links it has
                    \* been given: its letters, and the links on the pages read
    runs,           \* run() invocations so far
    rows0,          \* the file's records when the current run started
    fetched,        \* interview ids fetched during the current run
    failed,         \* interview ids whose fetch failed during the current run
    failed_prev,    \* the same, of the run before
    hist            \* what the first file and every run so far had in common

vars == << csv_exists, csv_rows, pc, resume, letter_urls, scraped_ids, total_new,
           li, players, pi, player_name, interviews, ii, soup, row, printed,
           unslept, idle_sleeps, count, runs, rows0, fetched, failed, failed_prev,
           hist >>

fileVars == << csv_exists, csv_rows >>
loopVars == << li, players, pi, player_name, interviews, ii >>
histVars == << runs, rows0, fetched, failed, failed_prev >>

\* The header once, first, and below it only rows that append_row wrote.
WellFormed(rows) ==
    /\ rows # << >>
    /\ Head(rows).kind = "header"
    /\ \A i \in 2..Len(rows) : rows[i].kind = "row"

\* The header is in the file exactly once, as its first record.
HeaderOnceFirst(rows) ==
    /\ rows # << >>
    /\ Head(rows).kind = "header"
    /\ \A i \in 2..Len(rows) : rows[i].kind # "header"

Row7 == DataRow(<<"A", "1">>, <<"d">>, Id7, DocUrl(Id7))
Row8 == DataRow(<<"A", "1">>, <<"D">>, Id8, DocUrl(Id8))

\* The files a first run may find.
InitFiles ==
    { [exists |-> FALSE, rows |-> << >>],
      [exists |-> TRUE,  rows |-> << >>],
      [exists |-> TRUE,  rows |-> << HeaderRow, Row7 >>],
      [exists |-> TRUE,  rows |-> << HeaderRow, Row8 >>],
      [exists |-> TRUE,  rows |-> << HeaderRow, Row7, BadRow, Row8 >>],
      [exists |-> TRUE,  rows |-> << HeaderRow, ShortRow, Row7 >>],
      [exists |-> TRUE,  rows |-> << ShortRow >>],
      [exists |-> TRUE,  rows |-> << Row7 >>],
      [exists |-> TRUE,  rows |-> << HeaderRow, HeaderRow >>] }

\* max_letters: None (no cut) or a count.
MaxLettersChoices == { -1, 1 }

TakeFirst(s, n) == SubSeq(s, 1, IF n < Len(s) THEN n ELSE Len(s))

Init ==
    /\ \E f \in InitFiles :
         /\ csv_exists = f.exists
         /\ csv_rows = f.rows
         /\ hist = [resume |-> TRUE, full |-> TRUE, nofail |-> TRUE,
                    header_ok |-> f.rows = << >> \/ HeaderOnceFirst(f.rows)]
    /\ pc = "idle"
    /\ resume = TRUE
    /\ letter_urls = << >>
    /\ scraped_ids = {}
    /\ total_new = 0
    /\ li = 1 /\ players = << >> /\ pi = 1
    /\ player_name = << >> /\ interviews = << >> /\ ii = 1
    /\ soup = NoSoup
    /\ row = << >>
    /\ printed = 0
    /\ unslept = 0 /\ idle_sleeps = 0
    /\ count = [fetches |-> 0, links |-> 0]
    /\ runs = 0
    /\ rows0 = << >>
    /\ fetched = {}
    /\ failed = {}
    /\ failed_prev = {}

\* ----------------------------------------------------------------- helpers
\* get_soup: the network call, which the server answers or fails.
NetCall(url, ok) ==
    /\ soup' = IF ok THEN SitePage(url) ELSE NoSoup
    /\ unslept' = IF unslept < 2 THEN unslept + 1 ELSE unslept
    /\ hist' = [hist EXCEPT !.nofail = @ /\ ok]
    /\ count' = [count EXCEPT !.fetches = @ + 1]
    /\ UNCHANGED idle_sleeps

\* As Sleep, with the time.sleep call left out.
Sleep_Skipped == UNCHANGED << unslept, idle_sleeps >>

\* time.sleep(RATE_LIMIT_SEC)
Sleep ==
    /\ unslept' = IF unslept > 0 THEN unslept - 1 ELSE 0
    /\ idle_sleeps' = IF unslept = 0 /\ idle_sleeps < 1 THEN idle_sleeps + 1
                      ELSE idle_sleeps

\* ----------------------------------------------------------------- actions
\* run(), lines 257-267: load the ids, ensure the header, cut the letters.
StartRun ==
    /\ pc = "idle"
    /\ runs < MaxRuns
    /\ \E r \in BOOLEAN, m \in MaxLettersChoices :
         /\ resume' = r
         /\ scraped_ids' = IF r THEN load_scraped_ids(csv_exists, csv_rows) ELSE {}
         /\ letter_urls' = IF m = -1 THEN get_letter_urls
                           ELSE TakeFirst(get_letter_urls, m)
         /\ hist' = [hist EXCEPT !.resume = @ /\ r, !.full = @ /\ (m = -1)]
    /\ csv_rows' = ensure_csv_header(csv_exists, csv_rows)
    /\ csv_exists' = TRUE
    /\ rows0' = csv_rows
    /\ total_new' = 0
    /\ li' = 1
    /\ runs' = runs + 1
    /\ fetched' = {}
    /\ failed' = {}
    /\ failed_prev' = failed
    /\ count' = [fetches |-> 0, links |-> Len(letter_urls')]
    /\ pc' = "letters"
    /\ UNCHANGED << players, pi, player_name, interviews, ii, soup, row, printed,
                    unslept, idle_sleeps >>

\* line 269: get_soup(session, letter_url)
FetchLetter ==
    /\ pc = "letters"
    /\ li <= Len(letter_urls)
    /\ \E ok \in BOOLEAN : NetCall(letter_urls[li], ok)
    /\ pc' = "sleepL"
    /\ UNCHANGED << fileVars, resume, letter_urls, scraped_ids, total_new,
                    loopVars, row, printed, histVars >>

\* lines 270-271: the delay, then the player links of the page
AfterLetter ==
    /\ pc = "sleepL"
    /\ Sleep
    /\ players' = get_player_links(soup)
    /\ count' = [count EXCEPT !.links = @ + Len(get_player_links(soup))]
    /\ pi' = 1
    /\ soup' = NoSoup
    /\ pc' = "players"
    /\ UNCHANGED << fileVars, resume, letter_urls, scraped_ids, total_new,
                    li, player_name, interviews, ii, row, printed, histVars,
                    hist >>

\* line 273: get_soup(session, player_url)
FetchPlayer ==
    /\ pc = "players"
    /\ pi <= Len(players)
    /\ \E ok \in BOOLEAN : NetCall(players[pi].url, ok)
    /\ pc' = "sleepP"
    /\ UNCHANGED << fileVars, resume, letter_urls, scraped_ids, total_new,
                    loopVars, row, printed, histVars >>

\* lines 274-276: the delay, the player's name, the interview links
AfterPlayer ==
    /\ pc = "sleepP"
    /\ Sleep
    /\ player_name' = IF soup.ok /\ FindAll(soup, "h1") # << >>
                      THEN Strip(FindAll(soup, "h1")[1].text)
                      ELSE players[pi].name
    /\ interviews' = get_interview_links(soup)
    /\ count' = [count EXCEPT !.links = @ + Len(get_interview_links(soup))]
    /\ ii' = 1
    /\ soup' = NoSoup
    /\ pc' = "interviews"
    /\ UNCHANGED << fileVars, resume, letter_urls, scraped_ids, total_new,
                    li, players, pi, row, printed, histVars, hist >>

\* lines 278-282: a link with no id, or with a known id, is passed over
SkipInterview ==
    /\ pc = "interviews"
    /\ ii <= Len(interviews)
    /\ LET iid == parse_interview_id(interviews[ii].url)
       IN  iid = None \/ iid \in scraped_ids
    /\ ii' = ii + 1
    /\ UNCHANGED << fileVars, pc, resume, letter_urls, scraped_ids, total_new,
                    li, players, pi, player_name, interviews, soup, row, printed,
                    unslept, idle_sleeps, count, histVars, hist >>

\* lines 283-285 and 219: scrape_interview's get_soup
FetchInterview ==
    /\ pc = "interviews"
    /\ ii <= Len(interviews)
    /\ LET iid == parse_interview_id(interviews[ii].url)
       IN  /\ iid # None
           /\ iid \notin scraped_ids
           /\ fetched' = fetched \cup {iid}
           /\ \E ok \in BOOLEAN :
                /\ NetCall(interviews[ii].url, ok)
                /\ failed' = IF ok THEN failed ELSE failed \cup {iid}
    /\ pc' = "sleepD"
    /\ UNCHANGED << fileVars, resume, letter_urls, scraped_ids, total_new,
                    loopVars, row, printed, runs, rows0, failed_prev >>

\* As AfterInterview, with scraped_ids.add(iid) moved above `if row`: the id is
\* marked before the row is stored, and also when there is no row.
AfterInterview_MarkFirst ==
    /\ pc = "sleepD"
    /\ Sleep
    /\ LET link == interviews[ii]
           iid  == parse_interview_id(link.url)
           r    == scrape_interview(soup, link.url, iid, player_name, link.date)
       IN  /\ scraped_ids' = scraped_ids \cup {iid}
           /\ IF r # << >>
              THEN row' = r /\ pc' = "append" /\ ii' = ii
              ELSE row' = << >> /\ pc' = "interviews" /\ ii' = ii + 1
    /\ soup' = NoSoup
    /\ UNCHANGED << fileVars, resume, letter_urls, total_new, li,
                    players, pi, player_name, interviews, printed, count,
                    histVars, hist >>

\* lines 220-229 and 286: the delay, the row or None, `if row`
AfterInterview ==
    /\ pc = "sleepD"
    /\ Sleep
    /\ LET link == interviews[ii]
           r    == scrape_interview(soup, link.url, parse_interview_id(link.url),
                                    player_name, link.date)
       IN  IF r # << >>
           THEN row' = r /\ pc' = "append" /\ ii' = ii
           ELSE row' = << >> /\ pc' = "interviews" /\ ii' = ii + 1
    /\ soup' = NoSoup
    /\ UNCHANGED << fileVars, resume, letter_urls, scraped_ids, total_new, li,
                    players, pi, player_name, interviews, printed, count,
                    histVars, hist >>

\* line 287: append_row(csv_path, row)
AppendRow ==
    /\ pc = "append"
    /\ csv_rows' = append_row(csv_rows, row[1])
    /\ pc' = "mark"
    /\ UNCHANGED << csv_exists, resume, letter_urls, scraped_ids, total_new,
                    loopVars, soup, row, printed, unslept, idle_sleeps, count, histVars,
                    hist >>

\* As MarkKnown, without `total_new += 1`.
MarkKnown_NoCount ==
    /\ pc = "mark"
    /\ scraped_ids' = scraped_ids \cup {parse_interview_id(interviews[ii].url)}
    /\ total_new' = total_new
    /\ ii' = ii + 1
    /\ row' = << >>
    /\ pc' = "interviews"
    /\ UNCHANGED << fileVars, resume, letter_urls, li, players, pi, player_name,
                    interviews, soup, printed, unslept, idle_sleeps, count, histVars,
                    hist >>

\* As MarkKnown, without `scraped_ids.add(iid)`.
MarkKnown_NoAdd ==
    /\ pc = "mark"
    /\ scraped_ids' = scraped_ids
    /\ total_new' = total_new + 1
    /\ ii' = ii + 1
    /\ row' = << >>
    /\ pc' = "interviews"
    /\ UNCHANGED << fileVars, resume, letter_urls, li, players, pi, player_name,
                    interviews, soup, printed, unslept, idle_sleeps, count, histVars,
                    hist >>

\* lines 288-289: scraped_ids.add(iid); total_new += 1
MarkKnown ==
    /\ pc = "mark"
    /\ scraped_ids' = scraped_ids \cup {parse_interview_id(interviews[ii].url)}
    /\ total_new' = total_new + 1
    /\ ii' = ii + 1
    /\ row' = << >>
    /\ pc' = "interviews"
    /\ UNCHANGED << fileVars, resume, letter_urls, li, players, pi, player_name,
                    interviews, soup, printed, unslept, idle_sleeps, count, histVars,
                    hist >>

\* line 277 exhausted: the next player
NextPlayer ==
    /\ pc = "interviews"
    /\ ii > Len(interviews)
    /\ pi' = pi + 1
    /\ pc' = "players"
    /\ UNCHANGED << fileVars, resume, letter_urls, scraped_ids, total_new,
                    li, players, player_name, interviews, ii, soup, row, printed,
                    unslept, idle_sleeps, count, histVars, hist >>

\* As NextLetter, going round to the same letter again.
NextLetter_Stay ==
    /\ pc = "players"
    /\ pi > Len(players)
    /\ li' = li
    /\ pc' = "letters"
    /\ UNCHANGED << fileVars, resume, letter_urls, scraped_ids, total_new,
                    players, pi, player_name, interviews, ii, soup, row, printed,
                    unslept, idle_sleeps, count, histVars, hist >>

\* line 272 exhausted: the next letter
NextLetter ==
    /\ pc = "players"
    /\ pi > Len(players)
    /\ li' = li + 1
    /\ pc' = "letters"
    /\ UNCHANGED << fileVars, resume, letter_urls, scraped_ids, total_new,
                    players, pi, player_name, interviews, ii, soup, row, printed,
                    unslept, idle_sleeps, count, histVars, hist >>

\* line 268 exhausted, line 290: the summary
Finish ==
    /\ pc = "letters"
    /\ li > Len(letter_urls)
    /\ printed' = total_new
    /\ pc' = "idle"
    /\ UNCHANGED << fileVars, resume, letter_urls, scraped_ids, total_new,
                    loopVars, soup, row, unslept, idle_sleeps, count, histVars, hist >>

RunStep ==
    \/ FetchLetter \/ AfterLetter \/ FetchPlayer \/ AfterPlayer
    \/ SkipInterview \/ FetchInterview \/ AfterInterview
    \/ AppendRow \/ MarkKnown
    \/ NextPlayer \/ NextLetter \/ Finish

Next == StartRun \/ RunStep

Spec == Init /\ [][Next]_vars

\* run() under the scheduling of a sequential program: a started run is not
\* suspended for ever.  The first file is absent or holds one row.
InitLive == Init /\ (~csv_exists \/ csv_rows = << HeaderRow, Row7 >>)

FairSpec == InitLive /\ [][Next]_vars /\ WF_vars(RunStep)

\* The same scheduling, for runs that start without a file.
InitFresh == Init /\ ~csv_exists

FreshFairSpec == InitFresh /\ [][Next]_vars /\ WF_vars(RunStep)

\* ------------------------------------------------------- claim vocabulary
InRun == pc # "idle"

\* The next statement of run() is a get_soup call.
AtFetch ==
    \/ pc = "letters" /\ li <= Len(letter_urls)
    \/ pc = "players" /\ pi <= Len(players)
    \/ /\ pc = "interviews"
       /\ ii <= Len(interviews)
       /\ parse_interview_id(interviews[ii].url) # None
       /\ parse_interview_id(interviews[ii].url) \notin scraped_ids

\* A get_soup call has returned and its delay has not yet run.
AfterFetch == pc \in {"sleepL", "sleepP", "sleepD"}

DataIndices(rows) == { i \in 1..Len(rows) : rows[i].kind = "row" }

RowIds(rows) == { rows[i].interview_id : i \in DataIndices(rows) }

UniqueIds(rows) ==
    /\ \A i \in DataIndices(rows) : rows[i].interview_id # << >>
    /\ \A i, j \in DataIndices(rows) :
         rows[i].interview_id = rows[j].interview_id => i = j

\* The rows the current run has appended below what it found (and below the
\* header it wrote into an absent or empty file).
AppendedRows ==
    LET start == IF rows0 = << >> THEN 1 ELSE Len(rows0)
    IN  SubSeq(csv_rows, start + 1, Len(csv_rows))

\* --------------------------------------------------------------------- C1
\* C1: on a static site on which every fetch succeeds, with resume on and no
\* letter cut in every run, and a store that is the header followed by rows of
\* append_row, a second (or later) run appends no row: the store is what the
\* run found.
C1_SecondRunAppendsNothing ==
    (runs >= 2 /\ hist.resume /\ hist.full /\ hist.nofail /\ WellFormed(rows0))
        => (csv_rows = rows0 /\ total_new = 0)

\* --------------------------------------------------------------------- C2
\* C2: when a run with resume on starts on a store (header, then rows) holding
\* a row with identifier X, no fetch is issued during that run for a link whose
\* identifier is X, and no row for X is appended.
C2_StoredIdNeverFetched ==
    (InRun /\ resume /\ WellFormed(rows0))
        => \A x \in RowIds(rows0) :
             x \notin fetched /\ x \notin RowIds(AppendedRows)

\* --------------------------------------------------------------------- C3
\* C3: every persisted row has a non-empty identifier and no two rows share
\* one, in every state of a run that has resume on like every run before it
\* and that started on an empty store or on a header followed by rows with
\* non-empty, pairwise distinct identifiers.
C3_StoreIdsUnique ==
    (runs >= 1 /\ hist.resume
       /\ (rows0 = << >> \/ (WellFormed(rows0) /\ UniqueIds(rows0))))
        => UniqueIds(csv_rows)

\* --------------------------------------------------------------------- C4
\* C4 as stated: wherever the crawl is about to issue a fetch, the known set
\* equals the set of identifiers of the rows in the store.
C4_CacheEqualsStore == AtFetch => scraped_ids = RowIds(csv_rows)

\* C4 as amended: throughout a run the known set holds what was loaded at the
\* start (nothing with resume off) and otherwise only identifiers of rows this
\* run has already appended; wherever the crawl is about to issue a fetch it
\* is exactly the loaded set plus the identifiers of the rows appended so far.
C4_CacheTracksAppends ==
    InRun =>
        LET loaded == IF resume THEN load_scraped_ids(TRUE, rows0) ELSE {}
            mine   == RowIds(AppendedRows)
        IN  /\ loaded \subseteq scraped_ids
            /\ scraped_ids \subseteq loaded \cup mine
            /\ AtFetch => scraped_ids = loaded \cup mine

\* A fetch is about to be issued after this run has appended a row, and the
\* known set differs from the identifiers in the store.
C4_Witness ==
    AtFetch /\ total_new >= 1 /\ RowIds(AppendedRows) # {}
            /\ scraped_ids # RowIds(csv_rows)

\* --------------------------------------------------------------------- C5
\* A step leaves the file alone, writes the header into an empty file, or adds
\* one complete row below the rows that were there.
FileStepAppendOnly ==
    \/ csv_rows' = csv_rows
    \/ csv_rows = << >> /\ csv_rows' = << HeaderRow >>
    \/ /\ Len(csv_rows') = Len(csv_rows) + 1
       /\ SubSeq(csv_rows', 1, Len(csv_rows)) = csv_rows
       /\ csv_rows'[Len(csv_rows')].kind = "row"
       /\ csv_rows'[Len(csv_rows')].interview_id # None
       /\ csv_rows'[Len(csv_rows')].url.page = "show_interview"

\* C5: at every point of a run the rows the run found are a prefix of the
\* store, and every step of ensure_csv_header and append_row keeps what was
\* written and adds at most one complete row at the end.
C5_AppendOnly ==
    /\ [](InRun => IsPrefix(rows0, csv_rows))
    /\ [][FileStepAppendOnly]_vars

\* A run that found rows in the store has appended one below them.
C5_Witness == InRun /\ Len(rows0) >= 2 /\ Len(csv_rows) > Len(rows0)

\* --------------------------------------------------------------------- C6
\* What a step does with a failed fetch: a failed letter page gives no players
\* and the loop moves to the next letter; a failed player page gives no
\* interviews and the loop moves to the next player; a failed interview page
\* gives no row and the loop moves to the next link.  Nothing is stored.
FailureIsSkipped ==
    /\ (pc = "sleepL" /\ ~soup.ok) =>
         /\ pc' = "players" /\ players' = << >> /\ pi' > Len(players')
         /\ li' = li /\ csv_rows' = csv_rows /\ scraped_ids' = scraped_ids
    /\ (pc = "players" /\ players = << >>) =>
         (pc' = "letters" /\ li' = li + 1 /\ csv_rows' = csv_rows)
    /\ (pc = "sleepP" /\ ~soup.ok) =>
         /\ pc' = "interviews" /\ interviews' = << >> /\ ii' > Len(interviews')
         /\ pi' = pi /\ csv_rows' = csv_rows /\ scraped_ids' = scraped_ids
    /\ (pc = "interviews" /\ interviews = << >>) =>
         (pc' = "players" /\ pi' = pi + 1 /\ csv_rows' = csv_rows)
    /\ (pc = "sleepD" /\ ~soup.ok) =>
         /\ pc' = "interviews" /\ ii' = ii + 1 /\ interviews' = interviews
         /\ csv_rows' = csv_rows /\ scraped_ids' = scraped_ids
         /\ total_new' = total_new

\* C6: a failed fetch at any of the three levels contributes no children and
\* no row, the crawl goes on with the next sibling, and the run reaches its
\* final summary.
C6_SkipOnFailure ==
    /\ [][FailureIsSkipped]_vars
    /\ (AfterFetch /\ ~soup.ok) ~> (pc = "idle")

\* After a failed interview fetch the run has reached its summary having
\* written nothing.
C6_Witness ==
    pc = "idle" /\ runs >= 1 /\ failed # {} /\ total_new = 0 /\ printed = 0

\* --------------------------------------------------------------------- C7
\* A failed interview fetch changes neither the store nor the known set.
FailedFetchLeavesNoTrace ==
    (pc = "sleepD" /\ ~soup.ok) =>
        (csv_rows' = csv_rows /\ csv_exists' = csv_exists
           /\ scraped_ids' = scraped_ids /\ row' = << >> /\ pc' = "interviews")

\* An interview whose fetch failed in the run before is not in the known set
\* when its link comes up, unless the store holds a row that carries its id.
FailedBeforeIsNotKnown ==
    \A i \in 1..Len(interviews) :
        LET iid == parse_interview_id(interviews[i].url)
        IN  (InRun /\ iid \in failed_prev
               /\ \A k \in 1..Len(csv_rows) :
                    /\ csv_rows[k].interview_id # iid
                    /\ Strip(csv_rows[k].interview_id) # iid)
                => iid \notin scraped_ids

\* C7: a failed document fetch appends no row and adds no identifier to the
\* known set, so in the next run the document is not known and is fetched
\* again when its link is listed.
C7_FailureLeavesNoTrace ==
    /\ [][FailedFetchLeavesNoTrace]_vars
    /\ []FailedBeforeIsNotKnown

\* An interview whose fetch failed in the run before has been fetched again,
\* in a run with resume on.
C7_Witness ==
    /\ pc = "sleepD" /\ resume /\ runs >= 2
    /\ parse_interview_id(interviews[ii].url) \in failed_prev

\* --------------------------------------------------------------------- C8
\* C8: fetches and delays alternate: a fetch is issued only when every earlier
\* network call has had its delay, each network call is followed by one delay
\* before the next, and no delay runs without a network call before it.
C8_FetchDelayAlternate ==
    /\ unslept <= 1
    /\ idle_sleeps = 0
    /\ AtFetch => unslept = 0
    /\ AfterFetch => unslept = 1
    /\ ~AfterFetch => unslept = 0

\* A failed interview fetch awaits its delay.
C8_Witness == pc = "sleepD" /\ ~soup.ok /\ unslept = 1 /\ runs >= 2

\* --------------------------------------------------------------------- C9
FirstBad(rows) ==
    IF \E i \in 1..Len(rows) : rows[i].kind = "bad"
    THEN CHOOSE i \in 1..Len(rows) :
           rows[i].kind = "bad" /\ \A j \in 1..(i - 1) : rows[j].kind # "bad"
    ELSE Len(rows) + 1

\* The file has a record the reader or decoder fails on, or no usable header.
Malformed(rows) ==
    rows # << >> /\ (FirstBad(rows) <= Len(rows) \/ rows[1].kind # "header")

\* run() has just loaded the ids and is at its first letter.
JustLoaded == pc = "letters" /\ li = 1 /\ resume

C10_HeaderOnceAnyFile == runs >= 1 => HeaderOnceFirst(csv_rows)

\* What ensure_csv_header does to the file in the first step of a run.
HeaderStep ==
    (pc = "idle" /\ pc' # "idle") =>
        /\ csv_exists'
        /\ (~csv_exists \/ csv_rows = << >>) => csv_rows' = << HeaderRow >>
        /\ (csv_exists /\ csv_rows # << >>) => csv_rows' = csv_rows

\* C10 as amended: from a first file that is absent, empty, or holds the header
\* exactly once as its first row, the store holds the header exactly once, as
\* its first row, after ensure_csv_header and any appends of any number of
\* runs; ensure_csv_header writes the header when the file is absent or empty
\* and changes nothing otherwise, so applying it twice equals applying it once.
C10_HeaderOnce ==
    /\ []((runs >= 1 /\ hist.header_ok) => HeaderOnceFirst(csv_rows))
    /\ [][HeaderStep]_vars
    /\ [](ensure_csv_header(TRUE, ensure_csv_header(csv_exists, csv_rows))
            = ensure_csv_header(csv_exists, csv_rows))

\* A second run has started on the file a first run created and filled.
C10_Witness ==
    /\ runs >= 2 /\ hist.header_ok /\ Len(csv_rows) >= 2 /\ Len(rows0) >= 2
    /\ pc = "letters" /\ li = 1

\* -------------------------------------------------------------------- C11
\* The list built from the page that the loop is in.
PlayersCurrent == pc \in {"players", "sleepP", "interviews", "sleepD", "append", "mark"}
InterviewsCurrent == pc \in {"interviews", "sleepD", "append", "mark"}

NoUrlTwice(links) ==
    \A i, j \in 1..Len(links) : links[i].url = links[j].url => i = j

\* C11: the list of player links built from a letter page and the list of
\* interview links built from a player page each hold every URL at most once.
C11_LinksDeduplicated ==
    /\ PlayersCurrent => NoUrlTwice(players)
    /\ InterviewsCurrent => NoUrlTwice(interviews)

\* ------------------------------------------------- extraction on its own
\* extract_transcript_metadata_and_text called twice on one parsed document.
\* `soup` is the document, `row` the calls made so far: the tree before the
\* call, the dict returned, the tree after it.
MaxHeadings == 4
MaxParas == 4

SeqsUpTo(S, n) == UNION { [1..k -> S] : k \in 0..n }

HeadingTexts ==
    { << " " >>, DocDate, << "May 1, 2020" >>, DocName,
      << "Fenway", "Park" >>, << "Wrigley", "Field" >>,
      << "Press", "Conference" >>, << "Press", "Center" >>,
      << "Red", "Sox" >>, << "Boston", ",", "Arena" >> }

\* Documents that are a run of h3 headings.
HeadingDocs ==
    { Soup(<< >>, [k \in 1..Len(ts) |-> H("h3", ts[k])]) :
        ts \in SeqsUpTo(HeadingTexts, MaxHeadings) }

ParaTexts ==
    { << "intro" >>, << "more" >>, << " " >>,
      << "FastScripts Transcript", " ", "footer" >>,
      << "(c)", " ", "ASAP Sports, Inc" >> }

\* Documents that are a title and a run of paragraphs in the title's <td>.
ParaDocs ==
    { Soup(<< >>, << Node("h1", << "T" >>, 1, FALSE, FALSE) >>
                  \o [k \in 1..Len(ts) |-> Node("p", ts[k], 1, FALSE, FALSE)]) :
        ts \in SeqsUpTo(ParaTexts, MaxParas) }

\* Documents without the usual layout: the title absent, outside any <td> or
\* inside a <nav>; a <script>; the text in a <main> element or in the body.
StructDocs ==
    { Soup(<< >>, h \o s \o b \o << H("h3", DocName) >>) :
        h \in { << >>, << H("h1", << "T" >>) >>,
                << Node("h1", << "T" >>, 0, TRUE, FALSE) >>,
                << Node("h1", << "T" >>, 1, FALSE, FALSE) >> },
        s \in { << >>, << Node("script", << "x" >>, 0, TRUE, FALSE) >> },
        b \in { << >>, << Node("p", << "body" >>, 0, FALSE, TRUE) >>,
                << Node("p", << "body", " ", "Subscribe to RSS" >>, 0, FALSE, FALSE) >> } }

Docs == HeadingDocs \cup ParaDocs \cup StructDocs

extractFrame ==
    << csv_exists, csv_rows, resume, letter_urls, scraped_ids, total_new,
       loopVars, printed, unslept, idle_sleeps, count, histVars, hist >>

ExtractInit ==
    /\ soup \in Docs
    /\ pc = "extract"
    /\ row = << >>
    /\ csv_exists = FALSE /\ csv_rows = << >>
    /\ hist = [resume |-> TRUE, full |-> TRUE, nofail |-> TRUE, header_ok |-> TRUE]
    /\ resume = TRUE /\ letter_urls = << >> /\ scraped_ids = {} /\ total_new = 0
    /\ li = 1 /\ players = << >> /\ pi = 1
    /\ player_name = << >> /\ interviews = << >> /\ ii = 1
    /\ printed = 0 /\ unslept = 0 /\ idle_sleeps = 0
    /\ count = [fetches |-> 0, links |-> 0]
    /\ runs = 0 /\ rows0 = << >> /\ fetched = {} /\ failed = {} /\ failed_prev = {}

\* One call of extract_transcript_metadata_and_text(soup).
ExtractCall ==
    /\ row' = Append(row, [before |-> soup,
                           data   |-> extract_transcript_metadata_and_text(soup),
                           after  |-> SoupAfterExtract(soup)])
    /\ soup' = SoupAfterExtract(soup)
    /\ UNCHANGED extractFrame

ExtractFirst == pc = "extract" /\ ExtractCall /\ pc' = "extracted"

ExtractSecond == pc = "extracted" /\ ExtractCall /\ pc' = "extracted2"

ExtractNext == ExtractFirst \/ ExtractSecond

ExtractSpec == ExtractInit /\ [][ExtractNext]_vars

\* -------------------------------------------------------------------- C12
\* C12: two calls on the same parsed document return identical dicts, and the
\* first call leaves the tree as it was, also when the fallback is taken.
C12_ExtractDeterministic ==
    /\ pc \in {"extracted", "extracted2"} => row[1].after = row[1].before
    /\ pc = "extracted2" => row[2].data = row[1].data

\* -------------------------------------------------------------------- C13
\* The document of the first call and the dict it returned.
Extracted == pc \in {"extracted", "extracted2"}
FirstDoc == row[1].before
FirstData == row[1].data

\* The stripped texts of the paragraphs in the main <td>, in document order.
MainParas(doc) ==
    LET ps == SelectSeq(doc.nodes, LAMBDA n : n.tag = "p" /\ n.td = MainTd(doc))
    IN  [k \in 1..Len(ps) |-> Strip(ps[k].text)]

IsMarkerPara(t) ==
    Contains(t, "FastScripts Transcript") \/ Contains(t, "ASAP Sports, Inc")

\* The index of the first marker paragraph, or one past the last paragraph.
FirstMarker(ts) ==
    IF \E k \in 1..Len(ts) : IsMarkerPara(ts[k])
    THEN CHOOSE k \in 1..Len(ts) :
           IsMarkerPara(ts[k]) /\ \A j \in 1..(k - 1) : ~IsMarkerPara(ts[j])
    ELSE Len(ts) + 1

\* The non-empty paragraphs before the first marker paragraph.
BeforeMarker(ts) ==
    SelectSeq(SubSeq(ts, 1, FirstMarker(ts) - 1), LAMBDA t : t # << >>)

HasMainParas(doc) == MainTd(doc) # 0 /\ MainParas(doc) # << >>

HeadingsOf(doc) ==
    LET hs == FindAll(doc, "h3") IN [k \in 1..Len(hs) |-> Strip(hs[k].text)]

\* The documents that are headings only: no title, no h2 date.
HeadingsOnly(doc) == FindAll(doc, "h1") = << >> /\ FindAll(doc, "h2") = << >>

\* The first rule, in the order of the chain at lines 154-173, that the k-th
\* heading matches by its text and position.
RuleOf(ts, k) ==
    LET t == ts[k]
    IN  IF t = << >> THEN "none"
        ELSE IF IsDate(t) THEN "date"
        ELSE IF \A j \in 1..(k - 1) : ts[j] = << >> \/ IsDate(ts[j]) THEN "name"
        ELSE IF HasKw(t, VenueKw) THEN "venue"
        ELSE IF HasKw(t, SessionKw) THEN "session"
        ELSE IF HasKw(t, TeamKw) THEN "team"
        ELSE IF "," \in Range(t) /\ k - 1 >= 3 /\ HasKw(t, {"arena"}) THEN "venue2"
        ELSE "none"

\* A non-empty field holds the text of a heading whose first matching rule is
\* one of `rules`.
FromRule(ts, value, rules) ==
    value # << >> => \E k \in 1..Len(ts) : ts[k] = value /\ RuleOf(ts, k) \in rules

\* C14: each heading goes to at most one field, by the first rule it matches
\* in the order date, name, venue keyword, session keyword, team, secondary
\* venue; [date, name, venue heading, session heading] fills exactly those
\* four fields; a heading with a venue and a session keyword is a venue only.
C14_FieldPriority ==
    (Extracted /\ HeadingsOnly(FirstDoc)) =>
        LET ts == HeadingsOf(FirstDoc)
            d  == FirstData
            fields == << d.date, d.player_name, d.venue, d.session_type, d.team >>
        IN  /\ FromRule(ts, d.date, {"date"})
            /\ FromRule(ts, d.player_name, {"name"})
            /\ FromRule(ts, d.venue, {"venue", "venue2"})
            /\ FromRule(ts, d.session_type, {"session"})
            /\ FromRule(ts, d.team, {"team"})
            /\ \A k \in 1..Len(ts) :
                 /\ (RuleOf(ts, k) = "none" /\ ts[k] # << >>) =>
                      \/ \A f \in 1..5 : fields[f] # ts[k]
                      \/ \E j \in 1..Len(ts) : j # k /\ ts[j] = ts[k]
                 /\ Cardinality({ f \in 1..5 : fields[f] # << >> /\ fields[f] = ts[k] })
                      <= Cardinality({ j \in 1..Len(ts) : ts[j] = ts[k] })
            /\ d.session_type # << >> => ~HasKw(d.session_type, VenueKw)
            /\ ts = << DocDate, DocName, << "Fenway", "Park" >>,
                       << "Press", "Conference" >> >>
                 => d = [EmptyData EXCEPT !.date = DocDate, !.player_name = DocName,
                                          !.venue = << "Fenway", "Park" >>,
                                          !.session_type = << "Press", "Conference" >>,
                                          !.transcript = d.transcript]

\* After a date and a name, a heading with a venue and a session keyword became
\* the venue, and a session heading after it the session type.
C14_Witness ==
    /\ Extracted /\ HeadingsOnly(FirstDoc)
    /\ HeadingsOf(FirstDoc) = << DocDate, DocName, << "Press", "Center" >>,
                                 << "Press", "Conference" >> >>
    /\ FirstData.venue = << "Press", "Center" >>
    /\ FirstData.session_type = << "Press", "Conference" >>
    /\ FirstData.date = DocDate /\ FirstData.player_name = DocName

\* -------------------------------------------------------------------- C15
\* The field holds the text of the first heading whose rule is `rule`, when
\* there is such a heading.
FirstMatchKept(ts, value, rule) ==
    \A k \in 1..Len(ts) :
        (RuleOf(ts, k) = rule /\ \A j \in 1..(k - 1) : RuleOf(ts, j) # rule)
            => value = ts[k]

\* C15: every field is set at most once while the headings are scanned: the
\* date, name, venue, session type and team are those of the first heading that
\* matches the field's rule, whatever later headings match it too.
C15_FirstMatchWins ==
    (Extracted /\ HeadingsOnly(FirstDoc)) =>
        LET ts == HeadingsOf(FirstDoc)
        IN  /\ FirstMatchKept(ts, FirstData.date, "date")
            /\ FirstMatchKept(ts, FirstData.player_name, "name")
            /\ FirstMatchKept(ts, FirstData.venue, "venue")
            /\ FirstMatchKept(ts, FirstData.session_type, "session")
            /\ FirstMatchKept(ts, FirstData.team, "team")

\* -------------------------------------------------------------------- C16
\* A step that issues the get_soup of scrape_interview.
IssuesInterviewFetch == pc = "interviews" /\ pc' = "sleepD"

\* C16: once the fetch of an interview page has failed, no fetch for that
\* interview id is issued again in the same run, on whatever page its link
\* comes up again.
C16_NoRetryInRun ==
    [][IssuesInterviewFetch => parse_interview_id(interviews[ii].url) \notin failed]_vars

\* -------------------------------------------------------------------- C17
\* scrape_interview has returned a row that run() is storing or has stored.
HoldsRow == pc \in {"append", "mark"}

\* The name run() resolved on the player page of the current player: its h1,
\* or the label of the link on the letter page when the page has no h1.
ResolvedName ==
    LET page == SitePage(players[pi].url)
    IN  IF FindAll(page, "h1") # << >> THEN Strip(FindAll(page, "h1")[1].text)
        ELSE players[pi].name

\* C17: in every row that is appended, player_name is the name resolved at the
\* player-page level and not a heading of the interview page; date is the date
\* beside the link on the player page when that is non-empty and the date
\* extracted from the interview page otherwise; interview_id and url are those
\* of the link that was fetched.
C17_OverridePrecedence ==
    HoldsRow =>
        LET link == interviews[ii]
            doc  == extract_transcript_metadata_and_text(SitePage(link.url))
        IN  /\ row[1].player_name = player_name
            /\ row[1].player_name = ResolvedName
            /\ row[1].player_name # doc.player_name
            /\ link.date # << >> => row[1].date = link.date
            /\ link.date = << >> => row[1].date = doc.date
            /\ row[1].interview_id = parse_interview_id(link.url)
            /\ row[1].url = link.url
            /\ pc = "mark" => csv_rows[Len(csv_rows)] = row[1]

\* A row was stored whose date is the one beside the link, not the date of
\* the interview page, and whose name is the h1 of the player page.
C17_Witness ==
    /\ pc = "mark"
    /\ interviews[ii].date = << "d" >>
    /\ csv_rows[Len(csv_rows)].date = << "d" >>
    /\ csv_rows[Len(csv_rows)].player_name = << "A", "1" >>
    /\ extract_transcript_metadata_and_text(SitePage(interviews[ii].url)).date = DocDate

\* -------------------------------------------------------------------- C18
\* The ids run() started with: those loaded from the file, or none.
LoadedIds == IF resume THEN load_scraped_ids(TRUE, rows0) ELSE {}

\* A run has printed its summary.
Finished == pc = "idle" /\ runs >= 1

\* C18: the count a run prints is the number of rows it appended and the
\* number of ids it added to scraped_ids, and is zero exactly when the file
\* holds no row that the run appended.
C18_FinalCount ==
    /\ Finished =>
         /\ printed = Len(AppendedRows)
         /\ printed = Cardinality(scraped_ids \ LoadedIds)
         /\ Cardinality(scraped_ids) = Cardinality(LoadedIds) + printed
         /\ printed = 0 <=> AppendedRows = << >>
    /\ (InRun /\ pc # "mark") => total_new = Len(AppendedRows)

\* A run that found rows in the file has printed a count of two.
C18_Witness == Finished /\ printed = 2 /\ Len(rows0) >= 2 /\ Len(AppendedRows) = 2

\* -------------------------------------------------------------------- C19
\* No two rows that the current run appended carry the same id.
AppendedOnce ==
    \A i, j \in 1..Len(AppendedRows) :
        AppendedRows[i].interview_id = AppendedRows[j].interview_id => i = j

\* C19: within one run, with resume on or off, no id is appended twice, and
\* no fetch is issued for an id whose row the run has already appended.
C19_OncePerRun ==
    /\ [](runs >= 1 => AppendedOnce)
    /\ [][IssuesInterviewFetch =>
            parse_interview_id(interviews[ii].url) \notin RowIds(AppendedRows)]_vars

\* With resume off, the link of an interview that this run has stored comes up
\* again and is passed over.
C19_Witness ==
    /\ pc = "interviews" /\ ~resume /\ ii <= Len(interviews)
    /\ parse_interview_id(interviews[ii].url) \in RowIds(AppendedRows)
    /\ parse_interview_id(interviews[ii].url) \in scraped_ids
    /\ ~AtFetch

\* -------------------------------------------------------------------- C20
\* How a step moves through the three nested loops: the letters are taken
\* one after the other from the first, each fetched once; a letter is left
\* only when its players are exhausted, a player only when its links are.
DepthFirstStep ==
    /\ (pc = "letters" /\ pc' = "sleepL") =>
         (li' = li /\ soup' \in {SitePage(letter_urls[li]), NoSoup})
    /\ pc' = "letters" =>
         \/ pc = "letters" /\ li' = li
         \/ pc = "idle" /\ li' = 1
         \/ pc = "players" /\ pi > Len(players) /\ li' = li + 1
    /\ (pc' = "players" /\ pc # "players") =>
         \/ pc = "sleepL" /\ pi' = 1 /\ li' = li
         \/ pc = "interviews" /\ ii > Len(interviews) /\ pi' = pi + 1 /\ li' = li
    /\ (pc' = "interviews" /\ pc # "interviews") =>
         \/ pc = "sleepP" /\ ii' = 1 /\ pi' = pi
         \/ pc \in {"sleepD", "mark"} /\ ii' = ii + 1 /\ pi' = pi
    /\ (pc' = "idle" /\ pc # "idle") => (pc = "letters" /\ li > Len(letter_urls))
    /\ InRun => letter_urls' = letter_urls

\* C20: a run reaches its summary whatever the fetches return; it takes the
\* letters (the first max_letters of the alphabet's) once each, in order, depth
\* first; at no point has it issued more fetches than it has been given links:
\* its letters, the player links and the interview links of the pages it read.
C20_Terminates ==
    /\ InRun ~> (pc = "idle")
    /\ [][DepthFirstStep]_vars
    /\ [](InRun => (IsPrefix(letter_urls, get_letter_urls) /\ li <= Len(letter_urls) + 1))
    /\ [](runs >= 1 => count.fetches <= count.links)
    /\ [](Finished => li = Len(letter_urls) + 1)

\* A run over every letter has printed its summary after a failed fetch, having
\* fetched letters, players and interviews, fewer than the links it was given.
C20_Witness ==
    /\ Finished /\ Len(letter_urls) = NumLetters /\ failed # {}
    /\ count.fetches > NumLetters + 2
    /\ count.fetches < count.links
    /\ total_new >= 1

====
